---- MODULE Spec2Model ----
(***************************************************************************)
(* Financial dashboard: the line-item normaliser (utils.safe_convert),     *)
(* the year / statement partitioner, the ratio deriver                     *)
(* (ChartService.create_profitability_radar_chart) and the analysis        *)
(* summary (FinancialDashboardApp._create_analysis_summary).               *)
(*                                                                         *)
(* Python values are records tagged by their type.  A str is a sequence    *)
(* of one-character strings.  The account labels of the source are Korean  *)
(* and are written here in ASCII:                                          *)
(*   "total_assets" (chart_service.py:317)  "total_equity" (:307)          *)
(*   "total_debt" (:409)  "revenue" (:328)  "operating_income" (:327)      *)
(*   "net_income" (:306)                                                   *)
(***************************************************************************)
EXTENDS Integers, Sequences, FiniteSets, TLC

VARIABLES
    value,        \* safe_convert: the argument
    converted,    \* safe_convert: the result, NotCalled before the call
    stripped,     \* safe_convert applied to the argument with its commas removed
    formatted,    \* format_amount: the result, NotCalled before the call
    view_mode,    \* request.args 'view_mode'
    start_year,   \* request.args 'start_year'
    end_year,     \* request.args 'end_year'
    pc,           \* where the request handler is
    next_year,    \* get_financial_info_range: the loop variable
    all_data,     \* get_financial_info_range: all_data
    fetched,      \* the upstream calls made so far: year asked for, answer
    successful_years, \* get_financial_info_range: successful_years
    financial_data,   \* the handler's financial_data
    error_message,    \* the handler's error_message
    year_data,    \* create_period_charts: year_data
    charts,       \* the handler's charts
    analysis_summary, \* the handler's analysis_summary
    limit,        \* get_formatted_financial_data: limit
    display_data, \* the handler's display_data
    corp_code,    \* request.args 'corp_code'
    response      \* /financial-api: the reply, NoReply before it is sent

convert_vars == <<value, converted, stripped, formatted>>
request_vars ==
    <<view_mode, start_year, end_year, pc, next_year, all_data, fetched,
      successful_years, financial_data, error_message, year_data, charts,
      analysis_summary>>
display_vars == <<limit, display_data>>
api_vars == <<corp_code, response>>
vars == <<convert_vars, request_vars, display_vars, api_vars>>

(***************************************************************************)
(* Bounds                                                                  *)
(***************************************************************************)
\* longest enumerated amount string
MaxLen == 4

\* characters the enumerated amount strings are made of
Chars == {"0", "1", "2", ",", "-", "n", "a"}

(***************************************************************************)
(* Python str, int and float                                               *)
(***************************************************************************)
DigitChars == {"0", "1", "2", "3", "4", "5", "6", "7", "8", "9"}

DigitVal ==
    ("0" :> 0) @@ ("1" :> 1) @@ ("2" :> 2) @@ ("3" :> 3) @@ ("4" :> 4) @@
    ("5" :> 5) @@ ("6" :> 6) @@ ("7" :> 7) @@ ("8" :> 8) @@ ("9" :> 9)

\* the str, int, None and other objects handed to the functions
PyStr(s) == [t |-> "str", s |-> s]
PyInt(neg, digits) == [t |-> "int", neg |-> neg, digits |-> digits]
PyFloatObj(f) == [t |-> "float", f |-> f]
PyNone == [t |-> "none"]
PyList == [t |-> "list"]

\* A finite float that holds an integer: sign and decimal digits, most
\* significant first, no leading zero.  -0.0 == 0.0 in Python; both are Zero.
Fin(neg, digits) == [k |-> "fin", neg |-> neg, digits |-> digits]
Zero == Fin(FALSE, <<0>>)
NaN == [k |-> "nan"]
Raise(exc) == [k |-> "raise", exc |-> exc]

\* no result yet
NotCalled == [k |-> "not_called"]

RECURSIVE StripZeros(_)
StripZeros(ds) ==
    IF Len(ds) > 1 /\ Head(ds) = 0 THEN StripZeros(Tail(ds)) ELSE ds

Canon(neg, ds) ==
    LET m == StripZeros(ds)
    IN  IF m = <<0>> THEN Zero ELSE Fin(neg, m)

\* the smallest integer that float() rounds to 2**1024: 2**1024 - 2**970
FloatOverflow ==
    <<
    1,7,9,7,6,9,3,1,3,4,8,6,2,3,1,5,8,0,7,9,3,7,2,8,9,7,1,4,0,5,3,0,3,4,1,5,0,7,9,9,
    3,4,1,3,2,7,1,0,0,3,7,8,2,6,9,3,6,1,7,3,7,7,8,9,8,0,4,4,4,9,6,8,2,9,2,7,6,4,7,5,
    0,9,4,6,6,4,9,0,1,7,9,7,7,5,8,7,2,0,7,0,9,6,3,3,0,2,8,6,4,1,6,6,9,2,8,8,7,9,1,0,
    9,4,6,5,5,5,5,4,7,8,5,1,9,4,0,4,0,2,6,3,0,6,5,7,4,8,8,6,7,1,5,0,5,8,2,0,6,8,1,9,
    0,8,9,0,2,0,0,0,7,0,8,3,8,3,6,7,6,2,7,3,8,5,4,8,4,5,8,1,7,7,1,1,5,3,1,7,6,4,4,7,
    5,7,3,0,2,7,0,0,6,9,8,5,5,5,7,1,3,6,6,9,5,9,6,2,2,8,4,2,9,1,4,8,1,9,8,6,0,8,3,4,
    9,3,6,4,7,5,2,9,2,7,1,9,0,7,4,1,6,8,4,4,4,3,6,5,5,1,0,7,0,4,3,4,2,7,1,1,5,5,9,6,
    9,9,5,0,8,0,9,3,0,4,2,8,8,0,1,7,7,9,0,4,1,7,4,4,9,7,7,9,2 >>

\* a >= b for digit sequences of one length
LexGE(a, b) ==
    LET diff == {i \in 1..Len(a) : a[i] # b[i]}
    IN  \/ diff = {}
        \/ LET m == CHOOSE i \in diff : \A j \in diff : i <= j
           IN  a[m] > b[m]

\* a >= b for digit sequences without leading zeros
DigitsGE(a, b) ==
    IF Len(a) # Len(b) THEN Len(a) > Len(b) ELSE LexGE(a, b)

\* str.replace(',', '')
RemoveCommas(s) == SelectSeq(s, LAMBDA c : c # ",")

\* float(str): an optional sign, then decimal digits or "nan"; anything else
\* is a ValueError.  ('.', 'e', '_', '+', blanks and "inf" need characters
\* outside Chars.)
FloatOfStr(s) ==
    LET neg  == s # <<>> /\ Head(s) = "-"
        body == IF neg THEN Tail(s) ELSE s
    IN  IF body = <<"n", "a", "n">> THEN NaN
        ELSE IF body # <<>> /\ \A i \in 1..Len(body) : body[i] \in DigitChars
             THEN Canon(neg, [i \in 1..Len(body) |-> DigitVal[body[i]]])
        ELSE Raise("ValueError")

\* float(int): OverflowError once the integer rounds to 2**1024
FloatOfInt(v) ==
    LET m == StripZeros(v.digits)
    IN  IF DigitsGE(m, FloatOverflow) THEN Raise("OverflowError")
        ELSE Canon(v.neg, m)

\* the builtin float()
PyFloat(v) ==
    CASE v.t = "str"   -> FloatOfStr(v.s)
      [] v.t = "int"   -> FloatOfInt(v)
      [] v.t = "float" -> v.f
      [] OTHER         -> Raise("TypeError")

(***************************************************************************)
(* utils.safe_convert                                                      *)
(***************************************************************************)
\* safe_convert with the comma removal of line 58 left out
safe_convert_keeps_commas(v) ==
    LET r == IF v.t \in {"str", "int", "float"} THEN PyFloat(v) ELSE Zero
    IN  IF r.k = "raise" /\ r.exc \in {"ValueError", "TypeError"} THEN Zero
        ELSE r

safe_convert(v) ==
    LET r == IF v.t = "str" THEN PyFloat(PyStr(RemoveCommas(v.s)))
             ELSE IF v.t \in {"int", "float"} THEN PyFloat(v)
             ELSE Zero
    IN  IF r.k = "raise" /\ r.exc \in {"ValueError", "TypeError"} THEN Zero
        ELSE r

(***************************************************************************)
(* Float arithmetic of the ratios.  Amounts are integers; a quotient is    *)
(* kept as the reduced fraction num / den.                                 *)
(***************************************************************************)
RECURSIVE DigitsToNat(_)
DigitsToNat(ds) ==
    IF ds = <<>> THEN 0
    ELSE 10 * DigitsToNat(SubSeq(ds, 1, Len(ds) - 1)) + ds[Len(ds)]

\* the integer a finite float holds
ToInt(f) == IF f.neg THEN 0 - DigitsToNat(f.digits) ELSE DigitsToNat(f.digits)

\* f > 0 (False for nan)
GtZero(f) == f.k = "fin" /\ ~f.neg /\ f # Zero

Abs(n) == IF n < 0 THEN 0 - n ELSE n

RECURSIVE GCD(_, _)
GCD(a, b) == IF b = 0 THEN a ELSE GCD(b, a % b)

Rat(num, den) ==
    LET g == GCD(Abs(num), den)
    IN  [k |-> "rat", num |-> num \div g, den |-> den \div g]

\* n / d, the factor 100 left out
Percent_unscaled(n, d) ==
    IF n.k = "nan" THEN NaN ELSE Rat(ToInt(n), ToInt(d))

\* (n / d) * 100 for a denominator d > 0
Percent(n, d) ==
    IF n.k = "nan" THEN NaN ELSE Rat(ToInt(n) * 100, ToInt(d))

\* the literal 0 of "... else 0"
RatZero == Rat(0, 1)

(***************************************************************************)
(* Line items                                                              *)
(***************************************************************************)
DigitChar == <<"0", "1", "2", "3", "4", "5", "6", "7", "8", "9">>

\* str(year) for year >= 0
RECURSIVE IntToStr(_)
IntToStr(n) ==
    IF n < 10 THEN <<DigitChar[n + 1]>>
    ELSE IntToStr(n \div 10) \o <<DigitChar[(n % 10) + 1]>>

(***************************************************************************)
(* utils.format_amount.  The unit suffixes of the source are Korean and    *)
(* are written as the characters "jo" (10**12), "eok" (10**8) and "man"    *)
(* (10**4).  The result is a str or an exception that leaves the function. *)
(***************************************************************************)
Str(s) == [k |-> "str", s |-> s]

\* "not amount_str": None, '', 0, 0.0 and [] are falsy
Falsy(v) ==
    \/ v.t \in {"none", "list"}
    \/ v.t = "str" /\ v.s = <<>>
    \/ v.t = "int" /\ StripZeros(v.digits) = <<0>>
    \/ v.t = "float" /\ v.f = Zero

DigitsToStr(ds) == [i \in 1..Len(ds) |-> DigitChar[ds[i] + 1]]

Sign(neg) == IF neg THEN <<"-">> ELSE <<>>

\* str(amount_str) of a str, an int, or a float ("1234.0", "nan")
StrOf(v) ==
    CASE v.t = "str" -> v.s
      [] v.t = "int" -> Sign(v.neg) \o DigitsToStr(StripZeros(v.digits))
      [] v.t = "float" ->
             IF v.f.k = "nan" THEN <<"n", "a", "n">>
             ELSE Sign(v.f.neg) \o DigitsToStr(v.f.digits) \o <<".", "0">>

\* int(str): an optional minus sign and decimal digits, else ValueError
IntOfStr(s) ==
    LET neg  == s # <<>> /\ Head(s) = "-"
        body == IF neg THEN Tail(s) ELSE s
    IN  IF body # <<>> /\ \A i \in 1..Len(body) : body[i] \in DigitChars
        THEN LET m == StripZeros([i \in 1..Len(body) |-> DigitVal[body[i]]])
             IN  [k |-> "int", neg |-> neg /\ m # <<0>>, digits |-> m]
        ELSE Raise("ValueError")

\* digits + 1
RECURSIVE Increment(_)
Increment(ds) ==
    IF ds = <<>> THEN <<1>>
    ELSE LET front == SubSeq(ds, 1, Len(ds) - 1)
             last  == ds[Len(ds)]
         IN  IF last < 9 THEN Append(front, last + 1)
             ELSE Append(Increment(front), 0)

\* floor(log2(n)) for n >= 1
RECURSIVE Log2Floor(_)
Log2Floor(n) == IF n < 2 THEN 0 ELSE 1 + Log2Floor(n \div 2)

\* 2**j mod 5
Pow2Mod5(j) == <<1, 2, 4, 3>>[(j % 4) + 1]

\* The quotient is exactly x = whole + tenth/10 + 0.05 = T/20, T odd.  For
\* 5 | T (x ends in .25 or .75) the float holds x and '.1f' rounds half to
\* even.  Otherwise the float is the 53-bit number nearest to x: with
\* 2**52 <= x * 2**e < 2**53 it lies above x exactly when
\* (T * 2**(e - 2)) mod 5 >= 3, and '.1f' rounds the way the float lies.
TieRoundsUp(whole, tenth) ==
    LET T == 2 * (10 * DigitsToNat(whole) + tenth) + 1
        e == 52 - Log2Floor(DigitsToNat(whole))
    IN  IF T % 5 = 0 THEN tenth % 2 = 1
        ELSE ((T % 5) * Pow2Mod5(e - 2)) % 5 >= 3

\* f"{amount / 10**k:.1f}" and the unit, for |amount| >= 10**k; the digits
\* are those of the exact quotient (the float's own digits differ once the
\* quotient has more than 15 digits)
Scaled(neg, ds, k, unit) ==
    LET n     == Len(ds)
        whole == SubSeq(ds, 1, n - k)
        tenth == ds[n - k + 1]
        rest  == SubSeq(ds, n - k + 2, n)
        half  == <<5>> \o [i \in 1..(k - 2) |-> 0]
        up    == IF rest = half THEN TieRoundsUp(whole, tenth)
                 ELSE LexGE(rest, half)
        shown == IF up THEN Increment(Append(whole, tenth))
                 ELSE Append(whole, tenth)
        m     == Len(shown)
    IN  Str(Sign(neg) \o DigitsToStr(SubSeq(shown, 1, m - 1)) \o <<".">>
            \o DigitsToStr(SubSeq(shown, m, m)) \o <<unit>>)

\* f"{amount:,}" for |amount| < 10**4
Grouped(neg, ds) ==
    IF Len(ds) = 4
    THEN Sign(neg) \o DigitsToStr(SubSeq(ds, 1, 1)) \o <<",">>
         \o DigitsToStr(SubSeq(ds, 2, 4))
    ELSE Sign(neg) \o DigitsToStr(ds)

\* format_amount: the ValueError of int() is caught (line 49), the
\* OverflowError of the true division is not
format_amount(amount_str) ==
    IF Falsy(amount_str) \/ amount_str = PyStr(<<"-">>) THEN Str(<<"0">>)
    ELSE
    LET text   == StrOf(amount_str)
        amount == IntOfStr(RemoveCommas(text))
    IN  IF amount.k = "raise" THEN Str(text)
        ELSE LET ds == amount.digits
                 n  == Len(ds)
             IN  IF n >= 13
                 THEN IF DigitsGE(SubSeq(ds, 1, n - 12), FloatOverflow)
                      THEN Raise("OverflowError")
                      ELSE Scaled(amount.neg, ds, 12, "jo")
                 ELSE IF n >= 9 THEN Scaled(amount.neg, ds, 8, "eok")
                 ELSE IF n >= 5 THEN Scaled(amount.neg, ds, 4, "man")
                 ELSE Str(Grouped(amount.neg, ds))

(***************************************************************************)
(* utils.format_financial_data_for_display and                             *)
(* FinancialDataService.get_formatted_financial_data.  A dict is a record; *)
(* a key the dict lacks is a field the record lacks.                       *)
(***************************************************************************)
\* item.get(key, '0')
Get(item, key) ==
    IF key \in DOMAIN item THEN item[key] ELSE PyStr(<<"0">>)

\* lines 137-142: the copy with the formatted fields assigned to it
FormattedItem(item) ==
    LET two == [thstrm_amount_formatted |->
                    format_amount(Get(item, "thstrm_amount")),
                frmtrm_amount_formatted |->
                    format_amount(Get(item, "frmtrm_amount"))] @@ item
    IN  IF "bfefrmtrm_amount" \in DOMAIN item
        THEN [bfefrmtrm_amount_formatted |->
                  format_amount(Get(item, "bfefrmtrm_amount"))] @@ two
        ELSE two

\* a format_amount call of the item raises
ItemRaises(item) ==
    \E key \in {"thstrm_amount", "frmtrm_amount"}
               \cup ({"bfefrmtrm_amount"} \cap DOMAIN item) :
        format_amount(Get(item, key)).k = "raise"

\* a list that was returned
Rows(items) == [k |-> "list", items |-> items]

\* format_financial_data_for_display: the list of copies, or the exception
\* of the first format_amount call that raises
format_financial_data_for_display(data) ==
    IF \E i \in 1..Len(data) : ItemRaises(data[i])
    THEN Raise("OverflowError")
    ELSE Rows([i \in 1..Len(data) |-> FormattedItem(data[i])])

\* financial_data[:limit]
Slice(data, n) ==
    IF n >= 0
    THEN SubSeq(data, 1, IF n < Len(data) THEN n ELSE Len(data))
    ELSE SubSeq(data, 1, IF Len(data) + n > 0 THEN Len(data) + n ELSE 0)

get_formatted_financial_data(data, n) ==
    format_financial_data_for_display(Slice(data, n))

\* a < b for str (code-point order; the keys are digit strings)
StrLT(a, b) ==
    LET n == IF Len(a) < Len(b) THEN Len(a) ELSE Len(b)
        diff == {i \in 1..n : a[i] # b[i]}
    IN  IF diff = {} THEN Len(a) < Len(b)
        ELSE LET m == CHOOSE i \in diff : \A j \in diff : i <= j
             IN  DigitVal[a[m]] < DigitVal[b[m]]

\* sorted(keys) of a set of str
RECURSIVE Sorted(_)
Sorted(S) ==
    IF S = {} THEN <<>>
    ELSE LET m == CHOOSE x \in S : \A y \in S : x = y \/ StrLT(x, y)
         IN  <<m>> \o Sorted(S \ {m})

\* one row of the upstream 'list'
\* the prior-period amount the upstream rows carry
PriorAmount == PyStr(<<"7">>)

LineItem(sj, fs, acc, amount) ==
    [sj_div |-> sj, fs_div |-> fs, account_nm |-> acc,
     thstrm_amount |-> PyStr(amount), frmtrm_amount |-> PriorAmount,
     bsns_year |-> <<>>, query_year |-> <<>>]

(***************************************************************************)
(* The partitioner: chart_service.py:493-507, repeated at app.py:235-249   *)
(***************************************************************************)
EmptyDict == <<>>

\* GroupRow without the test of line 501: any other tag is kept as its own
\* statement and lands in the BS group
GroupRow_keeps_any_tag(yd, row) ==
    LET year == row.bsns_year
        yd1  == IF year \in DOMAIN yd THEN yd
                ELSE yd @@ (year :> [BS |-> <<>>, IS |-> <<>>])
    IN  IF row.fs_div = "CFS"
        THEN [yd1 EXCEPT ![year] = [BS |-> Append(@.BS, row),
                                    IS |-> Append(@.IS, row)]]
        ELSE IF row.fs_div = "IS"
        THEN [yd1 EXCEPT ![year].IS = Append(@, row)]
        ELSE [yd1 EXCEPT ![year].BS = Append(@, row)]

\* GroupRow without line 505: a CFS row reaches the BS group only
GroupRow_cfs_to_bs_only(yd, row) ==
    LET year == row.bsns_year
        yd1  == IF year \in DOMAIN yd THEN yd
                ELSE yd @@ (year :> [BS |-> <<>>, IS |-> <<>>])
    IN  IF row.fs_div \in {"BS", "CFS"}
        THEN [yd1 EXCEPT ![year].BS = Append(@, row)]
        ELSE IF row.fs_div = "IS"
        THEN [yd1 EXCEPT ![year].IS = Append(@, row)]
        ELSE yd1

\* GroupRow with insert(0, row) for append(row)
GroupRow_prepends(yd, row) ==
    LET year == row.bsns_year
        yd1  == IF year \in DOMAIN yd THEN yd
                ELSE yd @@ (year :> [BS |-> <<>>, IS |-> <<>>])
        fs_div == row.fs_div
    IN  IF fs_div \in {"BS", "IS", "CFS"}
        THEN IF fs_div = "CFS"
             THEN [yd1 EXCEPT ![year] = [BS |-> <<row>> \o @.BS,
                                         IS |-> <<row>> \o @.IS]]
             ELSE [yd1 EXCEPT ![year][fs_div] = <<row>> \o @]
        ELSE yd1

\* one turn of "for _, row in df.iterrows()"
GroupRow(yd, row) ==
    LET year == row.bsns_year
        yd1  == IF year \in DOMAIN yd THEN yd
                ELSE yd @@ (year :> [BS |-> <<>>, IS |-> <<>>])
        fs_div == row.fs_div
    IN  IF fs_div \in {"BS", "IS", "CFS"}
        THEN IF fs_div = "CFS"
             THEN [yd1 EXCEPT ![year] = [BS |-> Append(@.BS, row),
                                         IS |-> Append(@.IS, row)]]
             ELSE [yd1 EXCEPT ![year][fs_div] = Append(@, row)]
        ELSE yd1

RECURSIVE GroupRows(_, _)
GroupRows(yd, rows) ==
    IF rows = <<>> THEN yd
    ELSE GroupRows(GroupRow(yd, Head(rows)), Tail(rows))

\* year_data of create_period_charts
period_year_data(data) == GroupRows(EmptyDict, data)

\* year_data of _create_analysis_summary
summary_year_data(data) == GroupRows(EmptyDict, data)

(***************************************************************************)
(* Account lookup                                                          *)
(***************************************************************************)
\* {item['account_nm']: item for item in data}
AccountDict(data) ==
    [a \in {data[i].account_nm : i \in 1..Len(data)} |->
        LET at == {i \in 1..Len(data) : data[i].account_nm = a}
        IN  data[CHOOSE i \in at : \A j \in at : j <= i]]

\* the lookup reading the prior-period field
Amount_reads_prior(d, name) ==
    IF name \in DOMAIN d THEN d[name].frmtrm_amount ELSE PyInt(FALSE, <<0>>)

\* d.get(name, {}).get('thstrm_amount', 0)
Amount(d, name) ==
    IF name \in DOMAIN d THEN d[name].thstrm_amount ELSE PyInt(FALSE, <<0>>)

(***************************************************************************)
(* The ratio deriver: ChartService.create_profitability_radar_chart        *)
(***************************************************************************)
RatioRecord(name, formula, v) ==
    [name |-> name, account_names |-> formula, value |-> v]

\* the ratios, their names and their formulas, zipped; {} is <<>>
create_profitability_radar_chart(bs_data, is_data) ==
    IF bs_data = <<>> \/ is_data = <<>> THEN <<>>
    ELSE
    LET bs_dict == AccountDict(bs_data)
        is_dict == AccountDict(is_data)
        net_income == safe_convert(Amount(is_dict, "net_income"))
        total_equity == safe_convert(Amount(bs_dict, "total_equity"))
        total_assets == safe_convert(Amount(bs_dict, "total_assets"))
        operating_income == safe_convert(Amount(is_dict, "operating_income"))
        revenue == safe_convert(Amount(is_dict, "revenue"))
        roe == IF GtZero(total_equity)
               THEN <<RatioRecord("ROE", "net_income / total_equity",
                                  Percent(net_income, total_equity))>>
               ELSE <<>>
        roa == IF GtZero(total_assets)
               THEN <<RatioRecord("ROA", "net_income / total_assets",
                                  Percent(net_income, total_assets))>>
               ELSE <<>>
        operating_margin ==
               IF GtZero(revenue)
               THEN <<RatioRecord("OperatingMargin",
                                  "operating_income / revenue",
                                  Percent(operating_income, revenue))>>
               ELSE <<>>
        net_margin ==
               IF GtZero(revenue)
               THEN <<RatioRecord("NetMargin", "net_income / revenue",
                                  Percent(net_income, revenue))>>
               ELSE <<>>
    IN  roe \o roa \o operating_margin \o net_margin

\* create_financial_charts: the split by sj_div and the radar chart
create_financial_charts(data) ==
    IF data = <<>> THEN [k |-> "none"]
    ELSE
    LET bs_data == SelectSeq(data, LAMBDA item : item.sj_div = "BS")
        is_data == SelectSeq(data, LAMBDA item : item.sj_div = "IS")
    IN  [k |-> "single", bs_data |-> bs_data, is_data |-> is_data,
         profitability_radar |->
             IF bs_data # <<>> /\ is_data # <<>>
             THEN create_profitability_radar_chart(bs_data, is_data)
             ELSE <<>>]

(***************************************************************************)
(* The trend charts of the period view                                     *)
(***************************************************************************)
EmptyChart == [k |-> "empty"]

HasBoth(yd, y) == yd[y].BS # <<>> /\ yd[y].IS # <<>>

\* ROE and ROA of one year's groups, as the trend chart computes them
TrendRatios(bs_data, is_data) ==
    LET bs_dict == AccountDict(bs_data)
        is_dict == AccountDict(is_data)
        net_income == safe_convert(Amount(is_dict, "net_income"))
        total_equity == safe_convert(Amount(bs_dict, "total_equity"))
        total_assets == safe_convert(Amount(bs_dict, "total_assets"))
    IN  [roe |-> IF GtZero(total_equity)
                 THEN Percent(net_income, total_equity) ELSE RatZero,
         roa |-> IF GtZero(total_assets)
                 THEN Percent(net_income, total_assets) ELSE RatZero]

create_ratio_trend_chart(yd) ==
    LET years == Sorted(DOMAIN yd)
        kept  == SelectSeq(years, LAMBDA y : HasBoth(yd, y))
        vals  == [i \in 1..Len(kept) |->
                     TrendRatios(yd[kept[i]].BS, yd[kept[i]].IS)]
    IN  IF kept = <<>> THEN EmptyChart
        ELSE [k |-> "ratio_trend", x |-> years,
              roe_values |-> [i \in 1..Len(kept) |-> vals[i].roe],
              roa_values |-> [i \in 1..Len(kept) |-> vals[i].roa]]

create_indicator_trend_chart(yd) ==
    LET years == Sorted(DOMAIN yd)
        kept  == SelectSeq(years, LAMBDA y : yd[y].IS # <<>>)
        dict(i) == AccountDict(yd[kept[i]].IS)
    IN  IF kept = <<>> THEN EmptyChart
        ELSE [k |-> "indicator_trend", x |-> years,
              revenue_values |->
                  [i \in 1..Len(kept) |->
                      safe_convert(Amount(dict(i), "revenue"))],
              net_income_values |->
                  [i \in 1..Len(kept) |->
                      safe_convert(Amount(dict(i), "net_income"))]]

create_period_charts(data) ==
    IF data = <<>> THEN [k |-> "none"]
    ELSE LET yd == period_year_data(data)
         IN  [k |-> "period",
              ratio_trend |-> create_ratio_trend_chart(yd),
              indicator_trend |-> create_indicator_trend_chart(yd)]

(***************************************************************************)
(* FinancialDashboardApp._create_analysis_summary                          *)
(***************************************************************************)
NoSummary == [k |-> "none"]

\* the four float(...) of lines 271-274 for one year
HeadlineFigures(bs_data, is_data) ==
    LET bs_dict == AccountDict(bs_data)
        is_dict == AccountDict(is_data)
    IN  [revenue |-> PyFloat(Amount(is_dict, "revenue")),
         net_income |-> PyFloat(Amount(is_dict, "net_income")),
         total_assets |-> PyFloat(Amount(bs_dict, "total_assets")),
         total_equity |-> PyFloat(Amount(bs_dict, "total_equity"))]

FiguresRaise(h) ==
    \E f \in {"revenue", "net_income", "total_assets", "total_equity"} :
        h[f].k = "raise"

\* summary['key_metrics'][year]
KeyMetrics(year, h) ==
    [year |-> year,
     revenue |-> h.revenue,
     net_income |-> h.net_income,
     total_assets |-> h.total_assets,
     total_equity |-> h.total_equity,
     roe |-> IF GtZero(h.total_equity)
             THEN Percent(h.net_income, h.total_equity) ELSE RatZero,
     roa |-> IF GtZero(h.total_assets)
             THEN Percent(h.net_income, h.total_assets) ELSE RatZero]

\* key_metrics is kept in insertion order, one entry per included year; an
\* exception anywhere gives None (lines 287-289)
create_analysis_summary(data, start, end) ==
    LET yd    == summary_year_data(data)
        years == Sorted(DOMAIN yd)
        kept  == SelectSeq(years, LAMBDA y : HasBoth(yd, y))
        h(i)  == HeadlineFigures(yd[kept[i]].BS, yd[kept[i]].IS)
    IN  IF \E i \in 1..Len(kept) : FiguresRaise(h(i)) THEN NoSummary
        ELSE [k |-> "summary",
              period |-> <<start, end>>,
              total_years |-> Cardinality(DOMAIN yd),
              years |-> years,
              key_metrics |-> [i \in 1..Len(kept) |-> KeyMetrics(kept[i], h(i))]]

(***************************************************************************)
(* Upstream responses and the bounded inputs                               *)
(***************************************************************************)
\* most line items one request fetches in all
MaxItems == 3

\* the rows the upstream API answers with: sj_div, fs_div, account, amount
UpstreamItems ==
    {LineItem("BS", "BS",  "total_equity", <<"6", "0", "0">>),
     LineItem("BS", "BS",  "total_equity", <<"0">>),
     LineItem("BS", "BS",  "total_equity", <<"-", "5", "0">>),
     LineItem("BS", "CFS", "total_assets", <<"1", ",", "2", "0", "0">>),
     LineItem("IS", "IS",  "net_income", <<"6", "0">>),
     LineItem("IS", "OFS", "revenue", <<"0">>)}

ItemLists(n) == UNION {[1..m -> UpstreamItems] : m \in 0..n}

\* what _make_request returns
\* a dict has the keys 'status' and 'message'; has_list says whether it
\* has the key 'list'
OkResponse(list) ==
    [t |-> "dict", status |-> "000", message |-> "ok", has_list |-> TRUE,
     list |-> list]
\* status 013 with the "no data found" message
NoDataResponse ==
    [t |-> "dict", status |-> "013", message |-> "no_data",
     has_list |-> FALSE, list |-> <<>>]
\* any other error status
ErrorResponse ==
    [t |-> "dict", status |-> "020", message |-> "error",
     has_list |-> FALSE, list |-> <<>>]
\* status 000 and no 'list' key
NoListResponse ==
    [t |-> "dict", status |-> "000", message |-> "ok", has_list |-> FALSE,
     list |-> <<>>]
\* an HTTP status other than 200, a RequestException or a JSON error:
\* _make_request returns None
NoResponse == [t |-> "none"]
\* any other exception leaves _make_request
RaisedResponse == [t |-> "raise"]

Failures ==
    {NoDataResponse, ErrorResponse, NoListResponse, NoResponse, RaisedResponse}

Responses(n) == {OkResponse(l) : l \in ItemLists(n)} \cup Failures

\* request.args.get('year', '2022')
DefaultYear == 2022

\* the company asked for
CorpCode == "00126380"

\* nothing has been sent yet
NoReply == [status |-> 0]

\* display_data before get_formatted_financial_data is called
NoDisplay == [k |-> "not_called"]

\* the requests: view_mode, start_year, end_year ('' is 0)
Requests ==
    {<<"single", 0, 0>>, <<"period", 999, 1000>>, <<"period", 0, 0>>,
     <<"period", 1000, 999>>}

\* the upstream API stamps its rows with their fiscal year
Stamp(list, y) == [i \in 1..Len(list) |-> [list[i] EXCEPT !.bsns_year = IntToStr(y)]]

\* the fiscal years the rows answered to a query for year q may carry: the
\* year asked for, or the year before it
FiscalYears(q) == {q, q - 1}

\* what get_financial_info returns: the answer with its rows stamped
Answer(data, fy) ==
    IF data.t = "dict" THEN [data EXCEPT !.list = Stamp(@, fy)] ELSE data

\* one entry of the log of upstream calls
Call(q, answer) == [year |-> q, data |-> answer]

(***************************************************************************)
(* OpenDartClient.get_financial_info_range                                 *)
(***************************************************************************)
\* the loop of lines 199-201 without line 201
WithQueryYear_keeps_bsns_year(list, y) ==
    [i \in 1..Len(list) |-> [list[i] EXCEPT !.query_year = IntToStr(y)]]

\* lines 199-201: query_year and bsns_year of every row
WithQueryYear(list, y) ==
    [i \in 1..Len(list) |->
        [list[i] EXCEPT !.query_year = IntToStr(y), !.bsns_year = IntToStr(y)]]

\* lines 188-206: does this answer contribute rows?
Contributes(data) ==
    /\ data.t = "dict"
    /\ data.status = "000"
    /\ data.has_list
    /\ data.list # <<>>

\* all_data.extend(data['list']) with the list put in front
Extend_prepends(all, list) == list \o all

\* line 202: all_data.extend(data['list'])
Extend(all, list) == all \o list

(***************************************************************************)
(* FinancialDataService                                                    *)
(***************************************************************************)
\* utils.create_user_friendly_error_message
create_user_friendly_error_message(status, message) ==
    IF status = "013" /\ message = "no_data" THEN "not_found" ELSE "query_error"

\* (None, None): what the function would return without line 88
NeitherResult == <<<<>>, "">>

\* get_financial_data_with_error_handling without the test of lines 88-92
get_financial_data_with_error_handling_keeps_empty(data) ==
    IF data.t = "raise" THEN <<<<>>, "exception">>
    ELSE IF data.t = "none"
    THEN <<<<>>, create_user_friendly_error_message("", "")>>
    ELSE IF data.status # "000"
    THEN <<<<>>, create_user_friendly_error_message(data.status, data.message)>>
    ELSE IF ~data.has_list THEN <<<<>>, "format_error">>
    ELSE IF data.list = <<>> THEN NeitherResult
    ELSE <<data.list, "">>

\* get_financial_data_with_error_handling: <<list, message>>; None is <<>>
\* for the list and "" for the message
get_financial_data_with_error_handling(data) ==
    IF data.t = "raise" THEN <<<<>>, "exception">>
    ELSE IF data.t = "none"
    THEN <<<<>>, create_user_friendly_error_message("", "")>>
    ELSE IF data.status # "000"
    THEN <<<<>>, create_user_friendly_error_message(data.status, data.message)>>
    ELSE IF ~data.has_list THEN <<<<>>, "format_error">>
    ELSE IF data.list = <<>>
    THEN <<<<>>, create_user_friendly_error_message("", "")>>
    ELSE <<data.list, "">>

\* get_financial_data_range_with_error_handling on the range's result
get_financial_data_range_with_error_handling(list) ==
    IF list = <<>> THEN <<<<>>, create_user_friendly_error_message("", "")>>
    ELSE <<list, "">>

(***************************************************************************)
(* The /financial page: app.py:144-226                                     *)
(***************************************************************************)
InPeriodBranch == view_mode = "period" /\ start_year # 0 /\ end_year # 0

Init ==
    /\ value = PyNone /\ converted = NotCalled /\ stripped = NotCalled
    /\ formatted = NotCalled
    /\ \E r \in Requests :
          /\ view_mode = r[1] /\ start_year = r[2] /\ end_year = r[3]
    /\ pc = "request"
    /\ next_year = 0 /\ all_data = <<>> /\ successful_years = <<>>
    /\ fetched = <<>>
    /\ financial_data = <<>> /\ error_message = "" /\ year_data = EmptyDict
    /\ charts = [k |-> "none"] /\ analysis_summary = NoSummary
    /\ limit = 0 /\ display_data = NoDisplay
    /\ corp_code = CorpCode /\ response = NoReply

\* the range loop starts
BeginRange ==
    /\ pc = "request" /\ InPeriodBranch
    /\ pc' = "fetching"
    /\ next_year' = start_year
    /\ UNCHANGED <<convert_vars, api_vars, display_vars, view_mode, start_year,
                   end_year, all_data,
                   fetched, successful_years, financial_data, error_message,
                   year_data, charts, analysis_summary>>

\* one turn of the range loop: one upstream fetch
FetchYear ==
    /\ pc = "fetching" /\ next_year <= end_year
    /\ \E data \in Responses(MaxItems - Len(all_data)),
          fy \in FiscalYears(next_year) :
          LET answer == Answer(data, fy)
          IN  /\ fetched' = Append(fetched, Call(next_year, answer))
              /\ IF Contributes(answer)
                 THEN /\ all_data' =
                            Extend(all_data,
                                   WithQueryYear(answer.list, next_year))
                      /\ successful_years' =
                            Append(successful_years, next_year)
                 ELSE UNCHANGED <<all_data, successful_years>>
    /\ next_year' = next_year + 1
    /\ UNCHANGED <<convert_vars, api_vars, display_vars, view_mode, start_year,
                   end_year, pc,
                   financial_data, error_message, year_data, charts,
                   analysis_summary>>

\* the loop is over: the range's result goes through the data service
EndRange ==
    /\ pc = "fetching" /\ next_year > end_year
    /\ LET r == get_financial_data_range_with_error_handling(all_data)
       IN  financial_data' = r[1] /\ error_message' = r[2]
    /\ pc' = "fetched"
    /\ UNCHANGED <<convert_vars, api_vars, display_vars, view_mode, start_year,
                   end_year, next_year,
                   all_data, fetched, successful_years, year_data, charts,
                   analysis_summary>>

\* the single-year fetch
FetchSingle ==
    /\ pc = "request" /\ ~InPeriodBranch
    /\ \E data \in Responses(MaxItems) :
          LET answer == Answer(data, DefaultYear)
              r == get_financial_data_with_error_handling(answer)
          IN  /\ fetched' = Append(fetched, Call(DefaultYear, answer))
              /\ financial_data' = r[1] /\ error_message' = r[2]
    /\ pc' = "fetched"
    /\ UNCHANGED <<convert_vars, api_vars, display_vars, view_mode, start_year,
                   end_year, next_year,
                   all_data, successful_years, year_data, charts,
                   analysis_summary>>

\* "if not financial_data": the error page
RenderError ==
    /\ pc = "fetched" /\ financial_data = <<>>
    /\ pc' = "done"
    /\ UNCHANGED <<convert_vars, api_vars, display_vars, view_mode, start_year,
                   end_year, next_year,
                   all_data, fetched, successful_years, financial_data,
                   error_message, year_data, charts, analysis_summary>>

\* the period view: the period charts, then the summary
RenderPeriod ==
    /\ pc = "fetched" /\ financial_data # <<>> /\ InPeriodBranch
    /\ year_data' = period_year_data(financial_data)
    /\ charts' = create_period_charts(financial_data)
    /\ limit' = 50
    /\ display_data' = get_formatted_financial_data(financial_data, 50)
    /\ analysis_summary' =
           create_analysis_summary(financial_data, start_year, end_year)
    /\ pc' = "done"
    /\ UNCHANGED <<convert_vars, api_vars, view_mode, start_year, end_year,
                   next_year,
                   all_data, fetched, successful_years, financial_data,
                   error_message>>

\* the single-year view; line 209 builds a summary whenever view_mode is
\* 'period'
RenderSingle ==
    /\ pc = "fetched" /\ financial_data # <<>> /\ ~InPeriodBranch
    /\ charts' = create_financial_charts(financial_data)
    /\ limit' = 20
    /\ display_data' = get_formatted_financial_data(financial_data, 20)
    /\ analysis_summary' =
           IF view_mode = "period"
           THEN create_analysis_summary(financial_data, start_year, end_year)
           ELSE NoSummary
    /\ pc' = "done"
    /\ UNCHANGED <<convert_vars, api_vars, view_mode, start_year, end_year,
                   next_year,
                   all_data, fetched, successful_years, financial_data,
                   error_message, year_data>>

Next ==
    \/ BeginRange
    \/ FetchYear
    \/ EndRange
    \/ FetchSingle
    \/ RenderError
    \/ RenderPeriod
    \/ RenderSingle

Spec == Init /\ [][Next]_vars

(***************************************************************************)
(* Exceptions of the single-year chart builders.  They print amounts with  *)
(* format_amount(str(int(amount))), and int() of a nan raises ValueError.  *)
(***************************************************************************)
KeyAccountsBS == {"total_assets", "total_debt", "total_equity"}
KeyAccountsIS == {"revenue", "operating_income", "net_income"}

\* int(f) raises
IntRaises(f) == f.k # "fin"

\* create_balance_sheet_chart / create_income_statement_chart: the first row
\* of a key account is printed, both its amounts
StatementChartRaises(data, keys) ==
    \E i \in 1..Len(data) :
        /\ data[i].account_nm \in keys
        /\ \A j \in 1..(i - 1) : data[j].account_nm # data[i].account_nm
        /\ \/ IntRaises(safe_convert(data[i].thstrm_amount))
           \/ IntRaises(safe_convert(data[i].frmtrm_amount))

\* create_profitability_radar_chart: the amounts of a ratio are printed
\* when its denominator is > 0
RadarChartRaises(bs_data, is_data) ==
    LET bs_dict == AccountDict(bs_data)
        is_dict == AccountDict(is_data)
        net_income == safe_convert(Amount(is_dict, "net_income"))
        total_equity == safe_convert(Amount(bs_dict, "total_equity"))
        total_assets == safe_convert(Amount(bs_dict, "total_assets"))
        operating_income == safe_convert(Amount(is_dict, "operating_income"))
        revenue == safe_convert(Amount(is_dict, "revenue"))
    IN  \/ /\ IntRaises(net_income)
           /\ GtZero(total_equity) \/ GtZero(total_assets) \/ GtZero(revenue)
        \/ IntRaises(operating_income) /\ GtZero(revenue)

\* create_debt_ratio_donut_chart: both amounts are printed unless both are 0
DonutChartRaises(bs_data) ==
    LET bs_dict == AccountDict(bs_data)
        total_debt == safe_convert(Amount(bs_dict, "total_debt"))
        total_equity == safe_convert(Amount(bs_dict, "total_equity"))
    IN  /\ ~(total_debt = Zero /\ total_equity = Zero)
        /\ IntRaises(total_debt) \/ IntRaises(total_equity)

\* create_financial_charts raises
FinancialChartsRaise(data) ==
    LET bs_data == SelectSeq(data, LAMBDA item : item.sj_div = "BS")
        is_data == SelectSeq(data, LAMBDA item : item.sj_div = "IS")
    IN  \/ bs_data # <<>> /\ StatementChartRaises(bs_data, KeyAccountsBS)
        \/ is_data # <<>> /\ StatementChartRaises(is_data, KeyAccountsIS)
        \/ /\ bs_data # <<>> /\ is_data # <<>>
           /\ \/ RadarChartRaises(bs_data, is_data)
              \/ DonutChartRaises(bs_data)

(***************************************************************************)
(* The /financial-api endpoint: app.py:78-142                              *)
(***************************************************************************)
\* the rows the upstream API answers with here; one amount is not a number
ApiItems ==
    {LineItem("BS", "BS",  "total_equity", <<"6", "0", "0">>),
     LineItem("BS", "CFS", "total_assets", <<"1", ",", "2", "0", "0">>),
     LineItem("IS", "IS",  "net_income", <<"6", "0">>),
     LineItem("IS", "IS",  "net_income", <<"n", "a", "n">>)}

ApiItemLists(n) == UNION {[1..m -> ApiItems] : m \in 0..n}

ApiResponses(n) == {OkResponse(l) : l \in ApiItemLists(n)} \cup Failures

ApiRequests ==
    Requests \cup {<<"period", 999, 0>>, <<"period", 0, 1000>>}

\* jsonify({'error': ...}), status
ErrorReply(status, error) == [status |-> status, error |-> error]

\* jsonify({'success': True, 'data': ..., 'charts': ..., ...})
SuccessReply(data, figures, name) ==
    [status |-> 200, success |-> TRUE, data |-> data, charts |-> figures,
     corp_code |-> name]

\* utils.convert_to_json_serializable of the rows, a list of dicts of str:
\* the list and each dict are rebuilt entry by entry, a str is returned as
\* it is
SerializableRows(data) ==
    [i \in DOMAIN data |-> [key \in DOMAIN data[i] |-> data[i][key]]]

\* utils.convert_to_json_serializable of the charts, a dict of str
SerializableCharts(figures) ==
    [key \in DOMAIN figures |-> figures[key]]

\* line 96 with "and" for "or"
MissingYears_when_both(start, end) == start = 0 /\ end = 0

\* line 96: not start_year or not end_year
MissingYears(start, end) == start = 0 \/ end = 0

ApiInit ==
    /\ value = PyNone /\ converted = NotCalled /\ stripped = NotCalled
    /\ formatted = NotCalled
    /\ \E r \in ApiRequests :
          /\ view_mode = r[1] /\ start_year = r[2] /\ end_year = r[3]
    /\ corp_code \in {"", CorpCode}
    /\ pc = "request"
    /\ next_year = 0 /\ all_data = <<>> /\ successful_years = <<>>
    /\ fetched = <<>>
    /\ financial_data = <<>> /\ error_message = "" /\ year_data = EmptyDict
    /\ charts = [k |-> "none"] /\ analysis_summary = NoSummary
    /\ limit = 0 /\ display_data = NoDisplay
    /\ response = NoReply

\* lines 87-88 and 96-97: the two 400 replies
ApiBadRequest ==
    /\ pc = "request"
    /\ \/ /\ corp_code = ""
          /\ response' = ErrorReply(400, "corp_code_required")
       \/ /\ corp_code # "" /\ view_mode = "period"
          /\ MissingYears(start_year, end_year)
          /\ response' = ErrorReply(400, "years_required")
    /\ pc' = "done"
    /\ UNCHANGED <<convert_vars, display_vars, corp_code, view_mode,
                   start_year, end_year, next_year, all_data, fetched,
                   successful_years, financial_data, error_message,
                   year_data, charts, analysis_summary>>

\* line 90 and line 96 passed: the range loop starts
ApiBeginRange ==
    /\ pc = "request" /\ corp_code # "" /\ view_mode = "period"
    /\ ~MissingYears(start_year, end_year)
    /\ pc' = "fetching"
    /\ next_year' = start_year
    /\ UNCHANGED <<convert_vars, display_vars, api_vars, view_mode,
                   start_year, end_year, all_data, fetched,
                   successful_years, financial_data, error_message,
                   year_data, charts, analysis_summary>>

\* one turn of the range loop
ApiFetchYear ==
    /\ pc = "fetching" /\ next_year <= end_year
    /\ \E data \in ApiResponses(MaxItems - Len(all_data)) :
          LET answer == Answer(data, next_year)
          IN  /\ fetched' = Append(fetched, Call(next_year, answer))
              /\ IF Contributes(answer)
                 THEN /\ all_data' =
                            Extend(all_data,
                                   WithQueryYear(answer.list, next_year))
                      /\ successful_years' =
                            Append(successful_years, next_year)
                 ELSE UNCHANGED <<all_data, successful_years>>
    /\ next_year' = next_year + 1
    /\ UNCHANGED <<convert_vars, display_vars, api_vars, view_mode,
                   start_year, end_year, pc, financial_data, error_message,
                   year_data, charts, analysis_summary>>

\* lines 99-101: the range's result goes through the data service
ApiEndRange ==
    /\ pc = "fetching" /\ next_year > end_year
    /\ LET r == get_financial_data_range_with_error_handling(all_data)
       IN  financial_data' = r[1] /\ error_message' = r[2]
    /\ pc' = "fetched"
    /\ UNCHANGED <<convert_vars, display_vars, api_vars, view_mode,
                   start_year, end_year, next_year, all_data, fetched,
                   successful_years, year_data, charts, analysis_summary>>

\* lines 111-116: the single-year fetch
ApiFetchSingle ==
    /\ pc = "request" /\ corp_code # "" /\ view_mode # "period"
    /\ \E data \in ApiResponses(MaxItems) :
          LET answer == Answer(data, DefaultYear)
              r == get_financial_data_with_error_handling(answer)
          IN  /\ fetched' = Append(fetched, Call(DefaultYear, answer))
              /\ financial_data' = r[1] /\ error_message' = r[2]
    /\ pc' = "fetched"
    /\ UNCHANGED <<convert_vars, display_vars, api_vars, view_mode,
                   start_year, end_year, next_year, all_data,
                   successful_years, year_data, charts, analysis_summary>>

\* lines 103-104 and 118-119: "if not financial_data"
ApiNotFound ==
    /\ pc = "fetched" /\ financial_data = <<>>
    /\ response' = ErrorReply(404, error_message)
    /\ pc' = "done"
    /\ UNCHANGED <<convert_vars, display_vars, corp_code, view_mode,
                   start_year, end_year, next_year, all_data, fetched,
                   successful_years, financial_data, error_message,
                   year_data, charts, analysis_summary>>

\* lines 107 and 129-138: the period charts and the success body
ApiReplyPeriod ==
    /\ pc = "fetched" /\ financial_data # <<>> /\ view_mode = "period"
    /\ year_data' = period_year_data(financial_data)
    /\ charts' = create_period_charts(financial_data)
    /\ response' = SuccessReply(SerializableRows(financial_data),
                                SerializableCharts(charts'), corp_code)
    /\ pc' = "done"
    /\ UNCHANGED <<convert_vars, display_vars, corp_code, view_mode,
                   start_year, end_year, next_year, all_data, fetched,
                   successful_years, financial_data, error_message,
                   analysis_summary>>

\* lines 123 and 129-142: the single-year charts and the success body, or
\* the 500 reply when a chart builder raises
ApiReplySingle ==
    /\ pc = "fetched" /\ financial_data # <<>> /\ view_mode # "period"
    /\ IF FinancialChartsRaise(financial_data)
       THEN /\ response' = ErrorReply(500, "server_error")
            /\ UNCHANGED charts
       ELSE /\ charts' = create_financial_charts(financial_data)
            /\ response' = SuccessReply(SerializableRows(financial_data),
                                        SerializableCharts(charts'),
                                        corp_code)
    /\ pc' = "done"
    /\ UNCHANGED <<convert_vars, display_vars, corp_code, view_mode,
                   start_year, end_year, next_year, all_data, fetched,
                   successful_years, financial_data, error_message,
                   year_data, analysis_summary>>

ApiNext ==
    \/ ApiBadRequest
    \/ ApiBeginRange
    \/ ApiFetchYear
    \/ ApiEndRange
    \/ ApiFetchSingle
    \/ ApiNotFound
    \/ ApiReplyPeriod
    \/ ApiReplySingle

SpecApi == ApiInit /\ [][ApiNext]_vars

(***************************************************************************)
(* The normaliser on its own: every argument, one call                     *)
(***************************************************************************)
\* no request is being handled
RequestIdle ==
    /\ view_mode = "none" /\ start_year = 0 /\ end_year = 0 /\ pc = "idle"
    /\ next_year = 0 /\ all_data = <<>> /\ successful_years = <<>>
    /\ fetched = <<>>
    /\ financial_data = <<>> /\ error_message = "" /\ year_data = <<>>
    /\ charts = <<>> /\ analysis_summary = <<>>
    /\ limit = 0 /\ display_data = <<>>
    /\ corp_code = "" /\ response = <<>>

\* "1,234,500,000,000"
ExampleAmount ==
    <<"1", ",", "2", "3", "4", ",", "5", "0", "0", ",",
      "0", "0", "0", ",", "0", "0", "0">>

\* 1234500000000
ExampleValue == <<1, 2, 3, 4, 5, 0, 0, 0, 0, 0, 0, 0, 0>>

StringsUpTo(n) == UNION {[1..m -> Chars] : m \in 0..n}

\* 10**308 and 2 * 10**308
TenTo308 == <<1>> \o [i \in 1..308 |-> 0]
TwiceTenTo308 == <<2>> \o [i \in 1..308 |-> 0]

ConvertInputs ==
    {PyStr(s) : s \in StringsUpTo(MaxLen) \cup {ExampleAmount}}
    \cup {PyInt(FALSE, <<0>>), PyInt(FALSE, <<7>>), PyInt(TRUE, <<1, 2>>),
          PyInt(FALSE, TenTo308), PyInt(FALSE, TwiceTenTo308),
          PyInt(TRUE, FloatOverflow)}
    \cup {PyFloatObj(Zero), PyFloatObj(Fin(TRUE, <<5>>)), PyFloatObj(NaN)}
    \cup {PyNone, PyList}

ConvertInit ==
    /\ value \in ConvertInputs
    /\ converted = NotCalled
    /\ stripped = NotCalled
    /\ formatted = NotCalled
    /\ RequestIdle

\* safe_convert(value)
SafeConvert ==
    /\ converted = NotCalled
    /\ converted' = safe_convert(value)
    /\ UNCHANGED <<value, stripped, formatted, request_vars, display_vars,
                   api_vars>>

\* safe_convert(value.replace(',', '')), the right-hand side of the
\* comma-stripping property
SafeConvertStripped ==
    /\ value.t = "str"
    /\ stripped = NotCalled
    /\ stripped' = safe_convert(PyStr(RemoveCommas(value.s)))
    /\ UNCHANGED <<value, converted, formatted, request_vars, display_vars,
                   api_vars>>

ConvertNext == SafeConvert \/ SafeConvertStripped

SpecConvert == ConvertInit /\ [][ConvertNext]_vars

(***************************************************************************)
(* The amount formatter on its own: every argument, one call               *)
(***************************************************************************)
\* amounts at the unit thresholds, halfway between two tenths, and past the
\* range of a float
ThresholdAmounts ==
    {<<"9", "9", "9", "9">>, <<"1", "0", "0", "0", "0">>,
     <<"1", "2", "5", "0", "0">>, <<"1", "7", "5", "0", "0">>,
     <<"1", "0", "5", "0", "0">>, <<"-", "1", "2", "5", "0", "0">>,
     <<"9", "9", "9", "9", "9", "9", "9", "9">>,
     <<"1", "0", "0", ",", "0", "0", "0", ",", "0", "0", "0">>,
     <<"9", "9", "9", "9", "9", "9", "9", "9", "9", "9", "9", "9">>,
     <<"1", "0", "0", "0", "0", "0", "0", "0", "0", "0", "0", "0", "0">>,
     ExampleAmount}

\* 2 * 10**320
TwiceTenTo320 == <<2>> \o [i \in 1..320 |-> 0]

FormatInputs ==
    {PyStr(s) : s \in StringsUpTo(MaxLen) \cup ThresholdAmounts}
    \cup {PyInt(FALSE, <<0>>), PyInt(FALSE, <<7>>), PyInt(TRUE, <<1, 2>>),
          PyInt(FALSE, ExampleValue), PyInt(TRUE, ExampleValue),
          PyInt(FALSE, TwiceTenTo320),
          PyStr(DigitsToStr(TwiceTenTo320))}
    \cup {PyFloatObj(Zero), PyFloatObj(Fin(TRUE, <<5>>)), PyFloatObj(NaN)}
    \cup {PyNone, PyList}

FormatInit ==
    /\ value \in FormatInputs
    /\ converted = NotCalled
    /\ stripped = NotCalled
    /\ formatted = NotCalled
    /\ RequestIdle

\* format_amount(value)
FormatAmount ==
    /\ formatted = NotCalled
    /\ formatted' = format_amount(value)
    /\ UNCHANGED <<value, converted, stripped, request_vars, display_vars,
                   api_vars>>

SpecFormat == FormatInit /\ [][FormatAmount]_vars

(***************************************************************************)
(* The ratio deriver on its own: one BalanceSheet / IncomeStatement pair   *)
(***************************************************************************)
\* the amounts of the five accounts; the first of each is the documented
\* example
AssetAmounts == {<<"1", "0", "0", "0", "0", "0", "0">>, <<"3">>, <<"0">>}
EquityAmounts == {<<"6", "0", "0", "0", "0", "0">>, <<"7">>, <<"0">>}
RevenueAmounts == {<<"5", "0", "0", "0", "0", "0">>, <<"3">>, <<"0">>}
OperatingAmounts == {<<"1", "0", "0", "0", "0", "0">>, <<"-", "2">>}
NetAmounts == {<<"6", "0", "0", "0", "0">>, <<"-", "1">>, <<"2">>}

\* a single-year answer with one row per account
RatioRows(assets, equity, revenue, operating, net) ==
    Stamp(<<LineItem("BS", "BS", "total_assets", assets),
            LineItem("BS", "BS", "total_equity", equity),
            LineItem("IS", "IS", "revenue", revenue),
            LineItem("IS", "IS", "operating_income", operating),
            LineItem("IS", "IS", "net_income", net)>>, DefaultYear)

RatiosInit ==
    /\ value = PyNone /\ converted = NotCalled /\ stripped = NotCalled
    /\ formatted = NotCalled
    /\ view_mode = "single" /\ start_year = 0 /\ end_year = 0
    /\ pc = "fetched"
    /\ next_year = 0 /\ all_data = <<>> /\ successful_years = <<>>
    /\ fetched = <<>> /\ error_message = "" /\ year_data = EmptyDict
    /\ \E assets \in AssetAmounts, equity \in EquityAmounts,
          revenue \in RevenueAmounts, operating \in OperatingAmounts,
          net \in NetAmounts :
          financial_data = RatioRows(assets, equity, revenue, operating, net)
    /\ charts = [k |-> "none"] /\ analysis_summary = NoSummary
    /\ limit = 0 /\ display_data = NoDisplay
    /\ corp_code = CorpCode /\ response = NoReply

SpecRatios == RatiosInit /\ [][RenderSingle]_vars

(***************************************************************************)
(* The display formatter on its own: get_formatted_financial_data applied  *)
(* to a list and a limit                                                   *)
(***************************************************************************)
\* rows with and without the optional amounts; one amount is 2 * 10**320
DisplayItems ==
    LET item == LineItem("BS", "CFS", "total_assets",
                         <<"1", ",", "2", "0", "0">>)
    IN  {item,
         [bfefrmtrm_amount |-> PyStr(<<"1", "2", "5", "0", "0">>)] @@ item,
         [sj_div |-> "IS", fs_div |-> "IS", account_nm |-> "net_income",
          thstrm_amount |-> PyStr(<<"-">>)],
         LineItem("IS", "IS", "revenue", DigitsToStr(TwiceTenTo320))}

DisplayLists(n) == UNION {[1..m -> DisplayItems] : m \in 0..n}

DisplayInit ==
    /\ value = PyNone /\ converted = NotCalled /\ stripped = NotCalled
    /\ formatted = NotCalled
    /\ view_mode = "none" /\ start_year = 0 /\ end_year = 0
    /\ pc = "display"
    /\ next_year = 0 /\ all_data = <<>> /\ successful_years = <<>>
    /\ fetched = <<>> /\ error_message = "" /\ year_data = EmptyDict
    /\ financial_data \in DisplayLists(MaxItems)
    /\ limit \in 0..(MaxItems + 1)
    /\ charts = [k |-> "none"] /\ analysis_summary = NoSummary
    /\ display_data = NoDisplay
    /\ corp_code = CorpCode /\ response = NoReply

\* get_formatted_financial_data(financial_data, limit)
GetFormatted ==
    /\ pc = "display"
    /\ display_data' = get_formatted_financial_data(financial_data, limit)
    /\ pc' = "displayed"
    /\ UNCHANGED <<convert_vars, api_vars, limit, view_mode, start_year,
                   end_year, next_year, all_data, fetched, successful_years,
                   financial_data, error_message, year_data, charts,
                   analysis_summary>>

SpecDisplay == DisplayInit /\ [][GetFormatted]_vars

(***************************************************************************)
(* Properties of the normaliser                                            *)
(***************************************************************************)
\* a decimal numeral: an optional minus sign, then one or more digits
IsNumeral(s) ==
    LET body == IF s # <<>> /\ Head(s) = "-" THEN Tail(s) ELSE s
    IN  body # <<>> /\ \A i \in 1..Len(body) : body[i] \in DigitChars

HasComma(s) == \E i \in 1..Len(s) : s[i] = ","

\* C7: safe_convert is total: every argument gives a number and nothing is
\* raised; "-", "", None and every string that is no numeral once its commas
\* are removed give 0.0.
C7_SafeConvertTotal ==
    converted # NotCalled =>
        /\ converted.k = "fin"
        /\ (\/ value = PyNone
            \/ value.t = "str" /\ ~IsNumeral(RemoveCommas(value.s)))
           => converted = Zero

\* C8: for every amount string with thousands separators, safe_convert(s)
\* is safe_convert(s without its commas); "1,234,500,000,000" gives
\* 1234500000000.
C8_CommaStripping ==
    /\ (value.t = "str" /\ converted # NotCalled /\ stripped # NotCalled)
       => (HasComma(value.s) => converted = stripped)
    /\ (value = PyStr(ExampleAmount) /\ converted # NotCalled)
       => converted = Fin(FALSE, ExampleValue)

C8_Witness ==
    /\ value = PyStr(ExampleAmount)
    /\ converted = Fin(FALSE, ExampleValue)
    /\ stripped = converted

(***************************************************************************)
(* Properties of the partitioner, the ratio deriver and the summary        *)
(***************************************************************************)
\* the rows of data whose account name did not occur before them
RECURSIVE FirstOnly(_)
FirstOnly(data) ==
    IF data = <<>> THEN <<>>
    ELSE LET n    == Len(data)
             init == SubSeq(data, 1, n - 1)
         IN  IF \E j \in 1..(n - 1) : data[j].account_nm = data[n].account_nm
             THEN FirstOnly(init)
             ELSE Append(FirstOnly(init), data[n])

FirstOnlyGroups(yd) ==
    [y \in DOMAIN yd |-> [BS |-> FirstOnly(yd[y].BS), IS |-> FirstOnly(yd[y].IS)]]

\* the number a year key stands for
YearValue(key) == DigitsToNat([i \in 1..Len(key) |-> DigitVal[key[i]]])

NumericallyAscending(keys) ==
    \A i, j \in 1..Len(keys) : i < j => YearValue(keys[i]) < YearValue(keys[j])

Count(seq, v) == Cardinality({i \in 1..Len(seq) : seq[i] = v})

RatioNames(records) == {records[i].name : i \in 1..Len(records)}

SummaryYearsWithBoth ==
    LET yd == summary_year_data(financial_data)
    IN  {y \in DOMAIN yd : HasBoth(yd, y)}

MetricYears ==
    {analysis_summary.key_metrics[i].year :
        i \in 1..Len(analysis_summary.key_metrics)}

PeriodDone == pc = "done" /\ InPeriodBranch /\ financial_data # <<>>

\* C1: in the ratio deriver every account lookup resolves to the first item
\* of that name in input order; later duplicates never change a ratio
\* (radar chart of the single-year view, ratio trend of the period view).
C1_FirstOccurrenceWins ==
    /\ charts.k = "single" =>
          charts.profitability_radar =
              IF charts.bs_data # <<>> /\ charts.is_data # <<>>
              THEN create_profitability_radar_chart(
                       FirstOnly(charts.bs_data), FirstOnly(charts.is_data))
              ELSE <<>>
    /\ charts.k = "period" =>
          charts.ratio_trend =
              create_ratio_trend_chart(FirstOnlyGroups(year_data))

\* C2: the summary lists a year in 'years', 'total_years' and 'key_metrics'
\* only if the year has an item in its BalanceSheet group and an item in
\* its IncomeStatement group.
C2_SummaryYearsHaveBothGroups ==
    (PeriodDone /\ analysis_summary.k = "summary") =>
        /\ \A i \in 1..Len(analysis_summary.years) :
              analysis_summary.years[i] \in SummaryYearsWithBoth
        /\ analysis_summary.total_years <= Cardinality(SummaryYearsWithBoth)
        /\ MetricYears \subseteq SummaryYearsWithBoth

\* C3: a malformed current-period amount counts as 0.0 (or as its
\* comma-stripped value) and the summary is still produced: no list of line
\* items makes _create_analysis_summary return no result.
C3_MalformedAmountsRecovered ==
    PeriodDone =>
        /\ analysis_summary.k = "summary"
        /\ \A i \in 1..Len(analysis_summary.key_metrics) :
              LET m  == analysis_summary.key_metrics[i]
                  yd == summary_year_data(financial_data)
                  bs_dict == AccountDict(yd[m.year].BS)
                  is_dict == AccountDict(yd[m.year].IS)
              IN  /\ m.revenue = safe_convert(Amount(is_dict, "revenue"))
                  /\ m.net_income = safe_convert(Amount(is_dict, "net_income"))
                  /\ m.total_assets = safe_convert(Amount(bs_dict, "total_assets"))
                  /\ m.total_equity = safe_convert(Amount(bs_dict, "total_equity"))

\* C4: the summary's year list, the order of its per-year entries and the
\* year axis of the trend chart ascend by the numeric value of the year,
\* also when the year keys differ in length.
C4_YearsAscendNumerically ==
    /\ (PeriodDone /\ analysis_summary.k = "summary") =>
          /\ NumericallyAscending(analysis_summary.years)
          /\ NumericallyAscending(
                 [i \in 1..Len(analysis_summary.key_metrics) |->
                     analysis_summary.key_metrics[i].year])
    /\ (charts.k = "period" /\ charts.ratio_trend.k = "ratio_trend") =>
          NumericallyAscending(charts.ratio_trend.x)

\* C5: each of ROE, ROA, OperatingMargin and NetMargin is absent from the
\* ratio deriver's result exactly when its denominator account is missing
\* from its group or normalises to zero; with a denominator that is present
\* and not zero the ratio is emitted.
C5_RatioAbsentIffDenominatorZero ==
    (charts.k = "single" /\ charts.bs_data # <<>> /\ charts.is_data # <<>>) =>
        LET bs_dict == AccountDict(charts.bs_data)
            is_dict == AccountDict(charts.is_data)
            names   == RatioNames(charts.profitability_radar)
            zero(d, account) == safe_convert(Amount(d, account)) = Zero
        IN  /\ "ROE" \notin names <=> zero(bs_dict, "total_equity")
            /\ "ROA" \notin names <=> zero(bs_dict, "total_assets")
            /\ "OperatingMargin" \notin names <=> zero(is_dict, "revenue")
            /\ "NetMargin" \notin names <=> zero(is_dict, "revenue")

SummaryHas(y, field, v) ==
    /\ analysis_summary.k = "summary"
    /\ \E i \in 1..Len(analysis_summary.key_metrics) :
          /\ analysis_summary.key_metrics[i].year = y
          /\ analysis_summary.key_metrics[i][field] = v

\* C6: for a year whose BalanceSheet group has total equity 0 and whose
\* IncomeStatement group is not empty, the ratio deriver gives no ROE for
\* the year's groups and the summary for the year has roe = 0; the same for
\* ROA and total assets.
C6_DualPolicy ==
    PeriodDone =>
        \A y \in DOMAIN year_data :
            HasBoth(year_data, y) =>
                LET bs_dict == AccountDict(year_data[y].BS)
                    names == RatioNames(create_profitability_radar_chart(
                                 year_data[y].BS, year_data[y].IS))
                IN  /\ safe_convert(Amount(bs_dict, "total_equity")) = Zero
                       => "ROE" \notin names /\ SummaryHas(y, "roe", RatZero)
                    /\ safe_convert(Amount(bs_dict, "total_assets")) = Zero
                       => "ROA" \notin names /\ SummaryHas(y, "roa", RatZero)

Recognised == {"BS", "IS", "CFS"}

Groups(yd) == {yd[y][g] : y \in DOMAIN yd, g \in {"BS", "IS"}}

\* C9: the partitioner recognises exactly BS, IS and CFS: an item with any
\* other tag, or none, is in no BalanceSheet or IncomeStatement group of any
\* year, every item with one of the three tags is in a group of its year,
\* and the period charts and the summary's partition are still produced.
C9_OnlyRecognisedTagsGrouped ==
    PeriodDone =>
        /\ charts.k = "period"
        /\ year_data = summary_year_data(financial_data)
        /\ \A i \in 1..Len(financial_data) :
              LET item == financial_data[i]
              IN  IF item.fs_div \in Recognised
                  THEN \E g \in {"BS", "IS"} :
                          Count(year_data[item.bsns_year][g], item) > 0
                  ELSE \A group \in Groups(year_data) : Count(group, item) = 0

C9_Witness ==
    /\ PeriodDone
    /\ \E i, j \in 1..Len(financial_data) :
          /\ financial_data[i].fs_div \notin Recognised
          /\ financial_data[j].fs_div \in Recognised
          /\ financial_data[i].bsns_year = financial_data[j].bsns_year

\* C10: each CFS-tagged item with fiscal year Y is exactly once in
\* groups[Y].BalanceSheet and exactly once in groups[Y].IncomeStatement (as
\* often as the input holds it), and in no group of another year.
C10_CfsInBothGroups ==
    PeriodDone =>
        \A i \in 1..Len(financial_data) :
            LET item == financial_data[i]
            IN  item.fs_div = "CFS" =>
                  \A y \in DOMAIN year_data :
                      LET n == IF y = item.bsns_year
                               THEN Count(financial_data, item) ELSE 0
                      IN  /\ Count(year_data[y].BS, item) = n
                          /\ Count(year_data[y].IS, item) = n

C10_Witness ==
    /\ PeriodDone
    /\ Cardinality(DOMAIN year_data) = 2
    /\ \E i \in 1..Len(financial_data) :
          /\ financial_data[i].fs_div = "CFS"
          /\ Count(financial_data, financial_data[i]) = 2

(***************************************************************************)
(* Properties of the two chart paths and of the range fetch                *)
(***************************************************************************)
SingleDone == pc = "done" /\ charts.k = "single"

\* C11: for a list whose items all belong to one year, the BalanceSheet and
\* IncomeStatement groups the single-year chart path uses are the groups the
\* multi-year partitioner builds for that year, CFS folding included.
C11_SinglePathUsesPartitioner ==
    SingleDone =>
        LET yd == period_year_data(financial_data)
            y  == IntToStr(DefaultYear)
        IN  /\ DOMAIN yd = {y}
            /\ charts.bs_data = yd[y].BS
            /\ charts.is_data = yd[y].IS

\* the calls of the range loop that contributed rows
Contributing == {i \in 1..Len(fetched) : Contributes(fetched[i].data)}

\* the same row, whatever year fields it carries now
SameRow(a, b) ==
    /\ a.sj_div = b.sj_div /\ a.fs_div = b.fs_div
    /\ a.account_nm = b.account_nm
    /\ a.thstrm_amount = b.thstrm_amount

\* C12: in a range request a row the upstream API returned for query year Q
\* with fiscal-year field F is grouped under F, also when F differs from Q.
C12_GroupedByOwnFiscalYear ==
    PeriodDone =>
        \A i \in Contributing :
            \A k \in 1..Len(fetched[i].data.list) :
                LET row == fetched[i].data.list[k]
                    F   == row.bsns_year
                    Q   == IntToStr(fetched[i].year)
                IN  row.fs_div \in Recognised =>
                      /\ F \in DOMAIN year_data
                      /\ \E g \in {"BS", "IS"} :
                            \E j \in 1..Len(year_data[F][g]) :
                                /\ SameRow(year_data[F][g][j], row)
                                /\ year_data[F][g][j].query_year = Q

\* g can be read off l from left to right, skipping items
RECURSIVE IsSubSeq(_, _)
IsSubSeq(g, l) ==
    IF g = <<>> THEN TRUE
    ELSE IF l = <<>> THEN FALSE
    ELSE IF Head(g) = Head(l) THEN IsSubSeq(Tail(g), Tail(l))
    ELSE IsSubSeq(g, Tail(l))

\* C13: every (year, statement) group of the partitioner, in the period
\* charts and in the summary, holds its items in the relative order of the
\* input list.
C13_GroupsKeepInputOrder ==
    PeriodDone =>
        \A yd \in {year_data, summary_year_data(financial_data)} :
            \A group \in Groups(yd) : IsSubSeq(group, financial_data)

C13_Witness ==
    /\ PeriodDone
    /\ \E group \in Groups(year_data) :
          /\ Len(group) >= 2
          /\ group[1] # group[2]
          /\ \E i \in 1..Len(financial_data) :
                financial_data[i] \notin {group[j] : j \in 1..Len(group)}

(***************************************************************************)
(* Properties of the ratio deriver and of the summary's figures            *)
(***************************************************************************)
\* the integer a plain numeral writes
IntOf(s) == IF s[1] = "-" THEN 0 - YearValue(Tail(s)) ELSE YearValue(s)

\* the amount of the one row of the account
RowAmount(data, account) ==
    IntOf(data[CHOOSE i \in 1..Len(data) : data[i].account_nm = account]
              .thstrm_amount.s)

\* the record of ratio 'name' holds n / d x 100
HoldsRatio(records, name, n, d) ==
    \E i \in 1..Len(records) :
        /\ records[i].name = name
        /\ records[i].value.k = "rat"
        /\ records[i].value.num * d = n * 100 * records[i].value.den

ExampleRows ==
    RatioRows(<<"1", "0", "0", "0", "0", "0", "0">>,
              <<"6", "0", "0", "0", "0", "0">>,
              <<"5", "0", "0", "0", "0", "0">>,
              <<"1", "0", "0", "0", "0", "0">>,
              <<"6", "0", "0", "0", "0">>)

\* C14: with positive denominators the ratio deriver yields
\* ROE = net_income / total_equity x 100, ROA = net_income / total_assets
\* x 100, OperatingMargin = operating_income / revenue x 100 and NetMargin =
\* net_income / revenue x 100, each once; the documented example gives 10,
\* 6, 20 and 12.
C14_RatioFormulas ==
    SingleDone =>
        LET records == charts.profitability_radar
            assets == RowAmount(financial_data, "total_assets")
            equity == RowAmount(financial_data, "total_equity")
            revenue == RowAmount(financial_data, "revenue")
            operating == RowAmount(financial_data, "operating_income")
            net == RowAmount(financial_data, "net_income")
        IN  /\ equity > 0 => HoldsRatio(records, "ROE", net, equity)
            /\ assets > 0 => HoldsRatio(records, "ROA", net, assets)
            /\ revenue > 0 =>
                  /\ HoldsRatio(records, "OperatingMargin", operating, revenue)
                  /\ HoldsRatio(records, "NetMargin", net, revenue)
            /\ \A i, j \in 1..Len(records) :
                  records[i].name = records[j].name => i = j
            /\ financial_data = ExampleRows =>
                  [i \in 1..4 |-> records[i].value] =
                      <<[k |-> "rat", num |-> 10, den |-> 1],
                        [k |-> "rat", num |-> 6, den |-> 1],
                        [k |-> "rat", num |-> 20, den |-> 1],
                        [k |-> "rat", num |-> 12, den |-> 1]>>

C14_Witness ==
    /\ SingleDone
    /\ financial_data = ExampleRows
    /\ Len(charts.profitability_radar) = 4

\* other prior-period amounts a row could carry
OtherPriorAmounts == {PyStr(<<"6", "0", "0">>), PyStr(<<"-">>)}

\* the list with the prior-period amount of item i changed to p
WithPrior(data, i, p) == [data EXCEPT ![i].frmtrm_amount = p]

Done == pc = "done" /\ financial_data # <<>>

\* C15: changing the prior-period amount of any line item changes no ratio:
\* not the radar chart's, not the trend chart's ROE / ROA, not the
\* summary's.
C15_RatiosIgnorePriorPeriod ==
    Done =>
        \A i \in 1..Len(financial_data), p \in OtherPriorAmounts :
            LET data == WithPrior(financial_data, i, p)
            IN  /\ charts.k = "single" =>
                      create_financial_charts(data).profitability_radar =
                          charts.profitability_radar
                /\ charts.k = "period" =>
                      create_period_charts(data).ratio_trend =
                          charts.ratio_trend
                /\ view_mode = "period" =>
                      create_analysis_summary(data, start_year, end_year) =
                          analysis_summary

C15_Witness ==
    /\ PeriodDone
    /\ charts.ratio_trend.k = "ratio_trend"
    /\ \E i \in 1..Len(charts.ratio_trend.roe_values) :
          charts.ratio_trend.roe_values[i] # RatZero
    /\ analysis_summary.k = "summary"
    /\ \E i \in 1..Len(analysis_summary.key_metrics) :
          analysis_summary.key_metrics[i].roe # RatZero

\* v is n / d x 100
IsPercentOf(v, n, d) ==
    /\ v.k = "rat"
    /\ v.num * ToInt(d) = ToInt(n) * 100 * v.den

\* the figure is the amount of the account's row, 0 without a row
IsFigureOf(v, group, account) ==
    /\ v.k = "fin"
    /\ IF \E i \in 1..Len(group) : group[i].account_nm = account
       THEN \E i \in 1..Len(group) :
               /\ group[i].account_nm = account
               /\ v = safe_convert(group[i].thstrm_amount)
       ELSE v = Zero

\* C16: every year of the summary has revenue, net_income, total_assets,
\* total_equity, roe and roa as numbers; a figure whose account is absent is
\* 0; roe and roa are net_income / denominator x 100, and 0 when the
\* denominator is zero.
C16_SummaryEntriesComplete ==
    (PeriodDone /\ analysis_summary.k = "summary") =>
        \A i \in 1..Len(analysis_summary.key_metrics) :
            LET m  == analysis_summary.key_metrics[i]
                yd == summary_year_data(financial_data)
            IN  /\ IsFigureOf(m.revenue, yd[m.year].IS, "revenue")
                /\ IsFigureOf(m.net_income, yd[m.year].IS, "net_income")
                /\ IsFigureOf(m.total_assets, yd[m.year].BS, "total_assets")
                /\ IsFigureOf(m.total_equity, yd[m.year].BS, "total_equity")
                /\ IF m.total_equity = Zero THEN m.roe = RatZero
                   ELSE IsPercentOf(m.roe, m.net_income, m.total_equity)
                /\ IF m.total_assets = Zero THEN m.roa = RatZero
                   ELSE IsPercentOf(m.roa, m.net_income, m.total_assets)

(***************************************************************************)
(* Properties of the fetch and its error messages                          *)
(***************************************************************************)
\* the data service has returned
Fetched == pc \in {"fetched", "done"}

GenuineFailures == {ErrorResponse, NoResponse, RaisedResponse}

\* C17: when the upstream API answers "no data" (status 013), the message is
\* the 'data not found' message, which a genuine failure never gets: for a
\* single-year request, and for a range request all of whose years were
\* answered "no data".
C17_NoDataMessageDistinct ==
    /\ (Fetched /\ ~InPeriodBranch) =>
          /\ fetched[1].data = NoDataResponse => error_message = "not_found"
          /\ fetched[1].data \in GenuineFailures =>
                error_message \notin {"not_found", ""}
    /\ (Fetched /\ InPeriodBranch /\ fetched # <<>>) =>
          /\ (\A i \in 1..Len(fetched) : fetched[i].data = NoDataResponse)
                => error_message = "not_found"
          /\ (\A i \in 1..Len(fetched) : fetched[i].data \in GenuineFailures)
                => error_message \notin {"not_found", ""}

\* every upstream answer of the request is in the log
AllAnswered ==
    Len(fetched) = IF InPeriodBranch THEN end_year - start_year + 1 ELSE 1

\* C18: whatever the upstream API did (no response, an exception, an error
\* status, an answer without 'list', an empty list, a list of rows), the
\* data service returns a pair: a non-empty list of line items and no
\* message, or no data and a non-empty message; never both, never neither.
C18_ListOrMessage ==
    Fetched =>
        /\ AllAnswered
        /\ \/ financial_data # <<>> /\ error_message = ""
           \/ financial_data = <<>> /\ error_message # ""
        /\ financial_data # <<>> <=>
              \E i \in 1..Len(fetched) : Contributes(fetched[i].data)

C18_Witness ==
    /\ Fetched /\ InPeriodBranch
    /\ Len(fetched) = 2
    /\ fetched[1].data = RaisedResponse
    /\ fetched[2].data = OkResponse(<<>>)
    /\ error_message # ""

\* the rows call n of the log contributed
PerYear(n) ==
    IF Contributes(fetched[n].data) THEN fetched[n].data.list ELSE <<>>

\* the rows of calls 1..n in call order, each with the year of its call
RECURSIVE FlatRows(_)
FlatRows(n) ==
    IF n = 0 THEN <<>>
    ELSE FlatRows(n - 1) \o
         [k \in 1..Len(PerYear(n)) |->
             [row |-> PerYear(n)[k], year |-> fetched[n].year]]

\* partitioning, charts or summary have been computed
Aggregated ==
    year_data # EmptyDict \/ charts.k # "none" \/ analysis_summary # NoSummary

\* C19: a range request start..end fetches once per year, in ascending year
\* order, one fetch after the other; the list handed on is the per-year
\* lists concatenated in that order; no partition, chart or summary exists
\* before the last fetch has returned.
C19_SequentialFetchThenAggregate ==
    InPeriodBranch =>
        /\ \A i \in 1..Len(fetched) : fetched[i].year = start_year + i - 1
        /\ pc = "fetching" => Len(fetched) = next_year - start_year
        /\ Fetched =>
              LET flat == FlatRows(Len(fetched))
              IN  /\ AllAnswered
                  /\ Len(financial_data) = Len(flat)
                  /\ \A k \in 1..Len(flat) :
                        /\ SameRow(financial_data[k], flat[k].row)
                        /\ financial_data[k].query_year =
                               IntToStr(flat[k].year)
        /\ Aggregated => (pc = "done" /\ AllAnswered)

C19_Witness ==
    /\ PeriodDone /\ Aggregated
    /\ Len(successful_years) = 2
    /\ ~SameRow(financial_data[1], financial_data[Len(financial_data)])

(***************************************************************************)
(* Idempotence of the partitioner                                          *)
(***************************************************************************)
\* the groups merged back into one list: year after year, the BalanceSheet
\* group and then the IncomeStatement group
RECURSIVE MergeYears(_, _)
MergeYears(yd, years) ==
    IF years = <<>> THEN <<>>
    ELSE yd[Head(years)].BS \o yd[Head(years)].IS
         \o MergeYears(yd, Tail(years))

Merge(yd) == MergeYears(yd, Sorted(DOMAIN yd))

\* the groups of year y, both empty for a year without a key
GroupsOf(yd, y) ==
    IF y \in DOMAIN yd THEN yd[y] ELSE [BS |-> <<>>, IS |-> <<>>]

\* partitioning the merged groups of yd gives the groups of yd
Repartitioned(yd) ==
    LET again == period_year_data(Merge(yd))
    IN  /\ DOMAIN again \subseteq DOMAIN yd
        /\ \A y \in DOMAIN yd : GroupsOf(again, y) = yd[y]

HasCfs == \E i \in 1..Len(financial_data) : financial_data[i].fs_div = "CFS"

IsAmount(v) ==
    \/ v.t = "int"
    \/ v.t = "str" /\ IsNumeral(RemoveCommas(v.s))

\* the digits of |amount|, without leading zeros
AmountDigits(v) ==
    IF v.t = "int" THEN StripZeros(v.digits)
    ELSE LET s == RemoveCommas(v.s)
             body == IF Head(s) = "-" THEN Tail(s) ELSE s
         IN  StripZeros([i \in 1..Len(body) |-> DigitVal[body[i]]])

UnitOf(n) ==
    IF n >= 13 THEN "jo" ELSE IF n >= 9 THEN "eok"
    ELSE IF n >= 5 THEN "man" ELSE "none"

\* s is digits, a point, one digit and the unit
HasOneDecimal(s, unit) ==
    /\ Len(s) >= 4
    /\ s[Len(s)] = unit
    /\ s[Len(s) - 1] \in DigitChars
    /\ s[Len(s) - 2] = "."
    /\ \A i \in 1..(Len(s) - 3) : s[i] \in DigitChars \cup {"-"}

\* the tenths s shows, for a text with one decimal and a unit
ShownTenths(s) ==
    LET body == SelectSeq(SubSeq(s, 1, Len(s) - 1),
                          LAMBDA c : c \in DigitChars)
    IN  DigitsToNat([i \in 1..Len(body) |-> DigitVal[body[i]]])

ZeroInputs == {PyNone, PyStr(<<>>), PyStr(<<"-">>)}

FormatsAsClaimed ==
    /\ value \in ZeroInputs => formatted = Str(<<"0">>)
    /\ (IsAmount(value) /\ value \notin ZeroInputs) =>
          LET ds   == AmountDigits(value)
              unit == UnitOf(Len(ds))
              s    == formatted.s
          IN  /\ unit # "none" => HasOneDecimal(s, unit)
              /\ unit = "man" =>
                    LET d == ShownTenths(s) * 1000 - DigitsToNat(ds)
                    IN  d <= 500 /\ 0 - d <= 500
              /\ unit = "none" =>
                    /\ \A i \in 1..Len(s) : s[i] \in DigitChars \cup {"-", ","}
                    /\ AmountDigits(PyStr(s)) = ds
                    /\ Len(ds) = 4 <=> HasComma(s)
    /\ (value.t = "str" /\ ~IsAmount(value) /\ value \notin ZeroInputs) =>
          formatted = Str(value.s)
    /\ value \in {PyStr(ExampleAmount), PyInt(FALSE, ExampleValue)} =>
          formatted = Str(<<"1", ".", "2", "jo">>)

\* C21: format_amount renders an integer amount in the largest unit that
\* applies, with one decimal (10**12, 10**8, 10**4), below 10**4 as the
\* plain integer with thousands separators; "-", "" and None give "0"; an
\* unparsable value comes back unchanged; nothing is raised;
\* "1,234,500,000,000" gives "1.2" and the 10**12 unit.
C21_FormatAmount ==
    formatted # NotCalled =>
        /\ formatted.k = "str"
        /\ FormatsAsClaimed

(***************************************************************************)
(* Properties of the trend charts, the summary and the pages               *)
(***************************************************************************)
\* C22: in both trend charts every value series is as long as the year
\* axis, and its i-th value was computed from the groups of the i-th year
\* of the axis, also when a year of the range is skipped.
C22_TrendSeriesAligned ==
    (PeriodDone /\ charts.k = "period") =>
        /\ LET c == charts.ratio_trend
           IN  c.k = "ratio_trend" =>
                 /\ Len(c.roe_values) = Len(c.x)
                 /\ Len(c.roa_values) = Len(c.x)
                 /\ \A i \in 1..Len(c.x) :
                       LET r == TrendRatios(year_data[c.x[i]].BS,
                                            year_data[c.x[i]].IS)
                       IN  c.roe_values[i] = r.roe /\ c.roa_values[i] = r.roa
        /\ LET c == charts.indicator_trend
           IN  c.k = "indicator_trend" =>
                 /\ Len(c.revenue_values) = Len(c.x)
                 /\ Len(c.net_income_values) = Len(c.x)
                 /\ \A i \in 1..Len(c.x) :
                       LET d == AccountDict(year_data[c.x[i]].IS)
                       IN  /\ c.revenue_values[i] =
                                 safe_convert(Amount(d, "revenue"))
                           /\ c.net_income_values[i] =
                                 safe_convert(Amount(d, "net_income"))

\* the list without its items of unrecognised tag
WithoutUnrecognised(data) ==
    SelectSeq(data, LAMBDA item : item.fs_div \in Recognised)

\* the charts a period-charts result holds ({} has none)
TrendCharts(c) ==
    IF c.k = "period" THEN <<c.ratio_trend, c.indicator_trend>>
    ELSE <<EmptyChart, EmptyChart>>

\* C23: an item with an unrecognised statement tag changes no output: the
\* summary ('years' and 'total_years' included) and the period charts of a
\* list equal those of the list without its unrecognised-tag items.
C23_UnrecognisedItemsHaveNoEffect ==
    PeriodDone =>
        LET clean == WithoutUnrecognised(financial_data)
        IN  /\ create_analysis_summary(clean, start_year, end_year) =
                   analysis_summary
            /\ TrendCharts(create_period_charts(clean)) = TrendCharts(charts)

\* the years whose groups the ratio-trend builder computes values from
TrendYears ==
    SelectSeq(Sorted(DOMAIN year_data), LAMBDA y : HasBoth(year_data, y))

\* the per-year entries of the summary; none without a summary
SummaryEntries ==
    IF analysis_summary.k = "summary" THEN analysis_summary.key_metrics
    ELSE <<>>

\* C24: the summary and the ratio-trend chart include the same years, and
\* for each of them the summary's roe and roa are the chart's ROE and ROA.
C24_SummaryAgreesWithTrend ==
    PeriodDone =>
        /\ [i \in 1..Len(SummaryEntries) |-> SummaryEntries[i].year] =
               TrendYears
        /\ charts.ratio_trend.k = "ratio_trend" <=> TrendYears # <<>>
        /\ charts.ratio_trend.k = "ratio_trend" =>
              /\ Len(charts.ratio_trend.roe_values) = Len(TrendYears)
              /\ \A i \in 1..Len(SummaryEntries) :
                    /\ SummaryEntries[i].roe = charts.ratio_trend.roe_values[i]
                    /\ SummaryEntries[i].roa = charts.ratio_trend.roa_values[i]

\* call i of the log answered with status 000 and at least one row
GaveItems(i) ==
    LET d == fetched[i].data
    IN  /\ d.t = "dict"
        /\ d.status = "000"
        /\ d.has_list
        /\ Len(d.list) > 0

\* C25: in get_financial_info_range a year answering with an error status,
\* no data or an exception is skipped and the later years are still
\* fetched; 'years' is the ascending list of the years that gave at least
\* one row; every row carries the year of its fetch as bsns_year and
\* query_year; the result is None exactly when no year gave a row, as when
\* start_year > end_year.
C25_RangeResult ==
    (InPeriodBranch /\ Fetched) =>
        LET n    == Len(fetched)
            flat == FlatRows(n)
        IN  /\ n = IF end_year >= start_year
                   THEN end_year - start_year + 1 ELSE 0
            /\ \A i \in 1..n : fetched[i].year = start_year + i - 1
            /\ successful_years =
                   SelectSeq([i \in 1..n |-> fetched[i].year],
                             LAMBDA y : GaveItems(y - start_year + 1))
            /\ \A i, j \in 1..Len(successful_years) :
                   i < j => successful_years[i] < successful_years[j]
            /\ Len(all_data) = Len(flat)
            /\ \A k \in 1..Len(flat) :
                   /\ SameRow(all_data[k], flat[k].row)
                   /\ all_data[k].bsns_year = IntToStr(flat[k].year)
                   /\ all_data[k].query_year = IntToStr(flat[k].year)
            /\ all_data = <<>> <=> ~ \E i \in 1..n : GaveItems(i)
            /\ financial_data = all_data
            /\ start_year > end_year => all_data = <<>>

C25_Witness ==
    /\ InPeriodBranch /\ Fetched
    /\ Len(fetched) = 2
    /\ fetched[1].data = RaisedResponse
    /\ GaveItems(2)
    /\ fetched[2].data.list[1].bsns_year = IntToStr(999)
    /\ successful_years = <<1000>>
    /\ all_data[1].bsns_year = IntToStr(1000)


\* the /financial-api handler has replied
ApiDone == pc = "done" /\ response # NoReply

\* the rows of the fetch: those of the years that gave any, in year order,
\* for a range; those of the one answer otherwise
FetchedRows ==
    IF view_mode = "period"
    THEN [k \in 1..Len(FlatRows(Len(fetched))) |->
             FlatRows(Len(fetched))[k].row]
    ELSE IF fetched # <<>> /\ GaveItems(1) THEN fetched[1].data.list
    ELSE <<>>

\* C26: /financial-api answers every request with exactly one of: 400 for
\* a missing corp_code, 400 for view_mode 'period' with start_year or
\* end_year missing, 404 with the error message when the fetch gave no
\* data, 500 when handling raised, and otherwise the success body with the
\* data and the charts; the success body only after a fetch that returned a
\* non-empty list.
C26_ApiOutcomes ==
    ApiDone =>
        LET no_code  == corp_code = ""
            no_years == view_mode = "period" /\
                        (start_year = 0 \/ end_year = 0)
            no_data  == ~ \E i \in 1..Len(fetched) : GaveItems(i)
            raised   == view_mode # "period" /\
                        FinancialChartsRaise(FetchedRows)
        IN  /\ response.status \in {200, 400, 404, 500}
            /\ no_code => response = ErrorReply(400, "corp_code_required")
            /\ (~no_code /\ no_years) =>
                   response = ErrorReply(400, "years_required")
            /\ (no_code \/ no_years) => fetched = <<>>
            /\ (~no_code /\ ~no_years /\ no_data) =>
                   /\ response = ErrorReply(404, error_message)
                   /\ error_message # ""
            /\ (~no_code /\ ~no_years /\ ~no_data /\ raised) =>
                   response.status = 500
            /\ (~no_code /\ ~no_years /\ ~no_data /\ ~raised) =>
                   /\ response.status = 200
                   /\ response.success
                   /\ Len(response.data) = Len(FetchedRows)
                   /\ \A k \in 1..Len(FetchedRows) :
                          SameRow(response.data[k], FetchedRows[k])
                   /\ response.charts =
                          IF view_mode = "period"
                          THEN create_period_charts(financial_data)
                          ELSE create_financial_charts(financial_data)
            /\ response.status = 200 =>
                   /\ \E i \in 1..Len(fetched) : GaveItems(i)
                   /\ response.data # <<>>

C26_Witness ==
    /\ ApiDone
    /\ view_mode = "single"
    /\ Len(fetched) = 1 /\ GaveItems(1)
    /\ Len(fetched[1].data.list) = 2
    /\ response.status = 500


\* C27: on the /financial page a summary is built only from the data of a
\* range request: whenever there is a summary, view_mode was 'period',
\* start_year and end_year were both given, and the summarised rows are
\* those the range fetch start_year..end_year returned.
C27_SummaryOnlyFromRange ==
    analysis_summary # NoSummary =>
        /\ view_mode = "period"
        /\ start_year # 0 /\ end_year # 0
        /\ \A i \in 1..Len(fetched) : fetched[i].year = start_year + i - 1
        /\ Len(fetched) = end_year - start_year + 1
        /\ financial_data = all_data


\* the fields get_formatted_financial_data is to add to a row
AddedFields(item) ==
    {"thstrm_amount_formatted", "frmtrm_amount_formatted"} \cup
    (IF "bfefrmtrm_amount" \in DOMAIN item
     THEN {"bfefrmtrm_amount_formatted"} ELSE {})

\* C28: get_formatted_financial_data returns the first min(limit, n) rows
\* in input order, each a copy keeping every field of the row and adding
\* thstrm_amount_formatted and frmtrm_amount_formatted, and
\* bfefrmtrm_amount_formatted exactly for a row with bfefrmtrm_amount.
C28_FormattedCopies ==
    pc = "displayed" =>
        /\ display_data.k = "list"
        /\ LET n == Len(financial_data)
               m == IF limit < n THEN limit ELSE n
           IN  /\ Len(display_data.items) = m
               /\ \A i \in 1..m :
                      LET item == financial_data[i]
                          copy == display_data.items[i]
                      IN  /\ DOMAIN copy = DOMAIN item \cup AddedFields(item)
                          /\ \A key \in DOMAIN item : copy[key] = item[key]
                          /\ \A key \in AddedFields(item) :
                                 copy[key].k = "str"

====
